---- MODULE Spec2Model ----
(***************************************************************************)
(* Model of batadase's typed table layer (src/assoc_poly_table.rs) over    *)
(* the storage engine adapter (src/lmdb.rs).                               *)
(*                                                                         *)
(* One environment with one named database is modelled.  A database is a   *)
(* set of <<key bytes, value bytes>> items; the engine keeps them sorted   *)
(* by its key comparator and, for a DupSort database, by its data          *)
(* comparator inside one key.  A transaction holds the view it reads and,  *)
(* for a read-write transaction, writes; commit publishes that view.       *)
(***************************************************************************)
EXTENDS Integers, Sequences, FiniteSets, TLC

\* ---------------------------------------------------------------- bounds
\* transactions begun in one behaviour
MaxTxn == 3

\* typed keys (K = u16) and typed values (V = u8: "a", "b", "c")
Keys == {1, 2, 256}
Values == {97, 98, 99}

TxnIds == 1 .. MaxTxn

VARIABLES
    dbflags,   \* DbFlags the database was opened with
    dbi_open,  \* whether the database handle is open in the environment
    store,     \* the committed items of the database
    txns,      \* per transaction: status, capability, view, snapshot taken at begin
    cur,       \* per transaction: its cursor's state and position
    ret,       \* the call that returned last and what it returned
    puts,      \* history: per view, the value each key was last put with
    scan,      \* history: the items a cursor returned since it was positioned
    views      \* the borrows handed out: table handles and byte views

vars == <<dbflags, dbi_open, store, txns, cur, ret, puts, scan, views>>

\* ------------------------------------------------------------ flag model
DbFlags == {"ReverseKey", "DupSort"}
PutFlags == {"NoDupData", "NoOverwrite"}
PutFlags_empty == {}
\* mutant of PutFlags_NoOverwrite: the neighbouring flag
PutFlags_NoDupData == {"NoDupData"}
PutFlags_NoOverwrite == {"NoOverwrite"}

\* ------------------------------------------------------------ codec
\* rkyv::to_bytes of a u16 key: two bytes, little endian
to_bytes_key(k) == <<k % 256, (k \div 256) % 256>>
\* rkyv::to_bytes of a u64 key: eight bytes, little endian
to_bytes_u64(k) == <<k % 256, (k \div 256) % 256, 0, 0, 0, 0, 0, 0>>
\* u64::from_ne_bytes on a little-endian target
RECURSIVE from_ne_bytes(_)
from_ne_bytes(bytes) ==
    IF bytes = <<>> THEN 0 ELSE bytes[1] + 256 * from_ne_bytes(Tail(bytes))
\* rkyv::to_bytes of a u8 value: one byte
to_bytes_val(v) == <<v>>
\* rkyv::to_bytes of a () value, the second value type put is called with here:
\* no bytes
to_bytes_unit == <<>>
\* rkyv::access::<Archived<u8>>: validates the length, then reads in place
access(bytes) ==
    IF Len(bytes) = 1
    THEN [tag |-> "Ok", val |-> bytes[1]]
    ELSE [tag |-> "Err", val |-> 0]

\* ------------------------------------------------------------ engine order
Min2(a, b) == IF a < b THEN a ELSE b

\* memcmp over the common prefix, then the shorter one first (default order)
RECURSIVE MemnLessFrom(_, _, _)
MemnLessFrom(a, b, i) ==
    IF i > Min2(Len(a), Len(b)) THEN Len(a) < Len(b)
    ELSE IF a[i] # b[i] THEN a[i] < b[i]
    ELSE MemnLessFrom(a, b, i + 1)
MemnLess(a, b) == MemnLessFrom(a, b, 1)

\* bytes compared from the end of the keys to their beginning (ReverseKey)
RECURSIVE MemnrLessFrom(_, _, _)
MemnrLessFrom(a, b, i) ==
    IF i >= Min2(Len(a), Len(b)) THEN Len(a) < Len(b)
    ELSE IF a[Len(a) - i] # b[Len(b) - i] THEN a[Len(a) - i] < b[Len(b) - i]
    ELSE MemnrLessFrom(a, b, i + 1)
MemnrLess(a, b) == MemnrLessFrom(a, b, 0)

KeyLess(flags, a, b) ==
    IF "ReverseKey" \in flags THEN MemnrLess(a, b) ELSE MemnLess(a, b)
DataLess(a, b) == MemnLess(a, b)
ItemLess(flags, p, q) ==
    \/ KeyLess(flags, p[1], q[1])
    \/ p[1] = q[1] /\ DataLess(p[2], q[2])

ItemsOf(db, key) == {p \in db : p[1] = key}
FirstData(items) == CHOOSE p \in items : \A q \in items : q = p \/ DataLess(p[2], q[2])

\* ------------------------------------------------------------ engine calls
\* mdb_get: the first data item of the key, or MDB_NOTFOUND
mdb_get(db, key) ==
    IF ~dbi_open THEN [rc |-> "MDB_BAD_DBI", data |-> <<>>]
    ELSE IF ItemsOf(db, key) = {}
    THEN [rc |-> "MDB_NOTFOUND", data |-> <<>>]
    ELSE [rc |-> "MDB_SUCCESS", data |-> FirstData(ItemsOf(db, key))[2]]

\* mdb_put: replaces the item of the key, or adds a duplicate in a DupSort database
mdb_put(db, flags, key, data, pf) ==
    LET old == ItemsOf(db, key)
        new == IF "DupSort" \in flags THEN db \cup {<<key, data>>}
               ELSE (db \ old) \cup {<<key, data>>}
    IN  IF ~dbi_open
            THEN [rc |-> "MDB_BAD_DBI", db |-> db]
        ELSE IF old # {} /\ "NoOverwrite" \in pf
            THEN [rc |-> "MDB_KEYEXIST", db |-> db]
        ELSE IF <<key, data>> \in db /\ "DupSort" \in flags /\ "NoDupData" \in pf
            THEN [rc |-> "MDB_KEYEXIST", db |-> db]
        ELSE [rc |-> "MDB_SUCCESS", db |-> new]

\* mdb_del with no data: removes the key with all its data items
mdb_del(db, key) ==
    IF ~dbi_open THEN [rc |-> "MDB_BAD_DBI", db |-> db]
    ELSE IF ItemsOf(db, key) = {}
    THEN [rc |-> "MDB_NOTFOUND", db |-> db]
    ELSE [rc |-> "MDB_SUCCESS", db |-> db \ ItemsOf(db, key)]

\* mdb_drop: empties the database; del = 0 keeps the handle open, del = 1
\* deletes the database from the environment and closes the handle
mdb_drop(db, del) ==
    IF ~dbi_open THEN [rc |-> "MDB_BAD_DBI", db |-> db, open |-> FALSE]
    ELSE [rc |-> "MDB_SUCCESS", db |-> {}, open |-> (del = 0)]

\* mdb_stat: ms_entries counts the data items
mdb_stat(db) ==
    IF ~dbi_open THEN [rc |-> "MDB_BAD_DBI", ms_entries |-> 0]
    ELSE [rc |-> "MDB_SUCCESS", ms_entries |-> Cardinality(db)]

\* ------------------------------------------------------------ error.rs
handle_get_code(rc) ==
    IF rc = "MDB_SUCCESS" THEN [tag |-> "Ok", found |-> TRUE, err |-> ""]
    ELSE IF rc = "MDB_NOTFOUND" THEN [tag |-> "Ok", found |-> FALSE, err |-> ""]
    ELSE [tag |-> "Err", found |-> FALSE, err |-> rc]
handle_put_code(rc) ==
    IF rc = "MDB_SUCCESS" THEN [tag |-> "Ok", err |-> ""]
    ELSE IF rc = "MDB_KEYEXIST" THEN [tag |-> "Err", err |-> "KeyExists"]
    ELSE [tag |-> "Err", err |-> rc]
handle_del_code(rc) ==
    IF rc = "MDB_SUCCESS" THEN [tag |-> "Ok", found |-> TRUE, err |-> ""]
    ELSE IF rc = "MDB_NOTFOUND" THEN [tag |-> "Ok", found |-> FALSE, err |-> ""]
    ELSE [tag |-> "Err", found |-> FALSE, err |-> rc]
handle_drop_code(rc) ==
    IF rc = "MDB_SUCCESS" THEN [tag |-> "Ok", err |-> ""] ELSE [tag |-> "Err", err |-> rc]
handle_stat_code(rc) ==
    IF rc = "MDB_SUCCESS" THEN [tag |-> "Ok", err |-> ""] ELSE [tag |-> "Err", err |-> rc]
handle_txn_begin_code(rc) ==
    IF rc = "MDB_SUCCESS" THEN [tag |-> "Ok", err |-> ""] ELSE [tag |-> "Err", err |-> rc]
handle_txn_commit_code(rc) ==
    IF rc = "MDB_SUCCESS" THEN [tag |-> "Ok", err |-> ""] ELSE [tag |-> "Err", err |-> rc]

\* ------------------------------------------------------------ lmdb.rs
\* mutant of lmdb_put: key and value handed to mdb_put in the wrong order
lmdb_put_swapped(db, flags, key, val, pf) ==
    LET r == mdb_put(db, flags, val, key, pf)
    IN  [res |-> handle_put_code(r.rc), db |-> r.db]

\* put: mdb_put on the transaction's view, status through handle_put_code
lmdb_put(db, flags, key, val, pf) ==
    LET r == mdb_put(db, flags, key, val, pf)
    IN  [res |-> handle_put_code(r.rc), db |-> r.db]

\* mutant of lmdb_del: every status but a failure reported as "deleted"
lmdb_del_always_true(db, key) ==
    LET r == mdb_del(db, key)
        h == handle_del_code(r.rc)
    IN  [res |-> [tag |-> h.tag, found |-> h.tag = "Ok", err |-> h.err], db |-> r.db]

\* mutant of lmdb_del: the first data item passed instead of a null pointer, so
\* that only that item of the key is deleted
lmdb_del_first_item(db, key) ==
    LET r == mdb_del(db, key)
    IN  [res |-> handle_del_code(r.rc),
         db |-> IF r.rc = "MDB_SUCCESS" THEN db \ {FirstData(ItemsOf(db, key))} ELSE db]

\* del: mdb_del with a null data pointer; Ok(true) deleted, Ok(false) not found
lmdb_del(db, key) ==
    LET r == mdb_del(db, key)
    IN  [res |-> handle_del_code(r.rc), db |-> r.db]

\* mutant of lmdb_drop: del = 1, which also closes the database handle
lmdb_drop_del(db) ==
    LET r == mdb_drop(db, 1)
    IN  [res |-> handle_drop_code(r.rc), db |-> r.db, open |-> r.open]

\* drop: mdb_drop(tx, dbi, 0)
lmdb_drop(db) ==
    LET r == mdb_drop(db, 0)
    IN  [res |-> handle_drop_code(r.rc), db |-> r.db, open |-> r.open]

\* get: Err on an engine failure, None when not found, else the stored bytes
lmdb_get(db, key) ==
    LET r == mdb_get(db, key)
        h == handle_get_code(r.rc)
    IN  IF h.tag = "Err" THEN [tag |-> "Err", bytes |-> <<>>, err |-> h.err]
        ELSE IF ~h.found THEN [tag |-> "None", bytes |-> <<>>, err |-> ""]
        ELSE [tag |-> "Some", bytes |-> r.data, err |-> ""]

\* stat: the engine's statistics of the database
lmdb_stat(db) ==
    LET r == mdb_stat(db)
        h == handle_stat_code(r.rc)
    IN  IF h.tag = "Err" THEN [tag |-> "Err", ms_entries |-> 0, err |-> h.err]
        ELSE [tag |-> "Ok", ms_entries |-> r.ms_entries, err |-> ""]

\* mutant of txn_begin: the engine's status dropped
txn_begin_unchecked(rc) == [tag |-> "Ok", err |-> ""]

\* txn_begin: the engine's status decides; a transaction handle only on success
txn_begin(rc) == handle_txn_begin_code(rc)

\* mutant of txn_commit: the engine's status dropped
txn_commit_unchecked(rc) == [tag |-> "Ok", err |-> ""]

\* txn_commit: the engine's status decides
txn_commit(rc) == handle_txn_commit_code(rc)

\* ------------------------------------------------------------ results
NoItem == <<>>
Out(tag, val, err) == [tag |-> tag, val |-> val, err |-> err, item |-> NoItem]
OutItem(tag, item) == [tag |-> tag, val |-> 0, err |-> "", item |-> item]
Ret(op, t, k, v, out) ==
    [op |-> op, txn |-> t, key |-> k, val |-> v, flag |-> "", out |-> out]
RetCursor(op, t, k, flag, out) ==
    [op |-> op, txn |-> t, key |-> k, val |-> 0, flag |-> flag, out |-> out]

\* ------------------------------------------------------------ transactions
Unused == [st |-> "unused", rw |-> FALSE, view |-> {}, snap |-> {}]
Done == [st |-> "done", rw |-> FALSE, view |-> {}, snap |-> {}]
IsActive(t) == txns[t].st = "active"
ActiveRw == {t \in TxnIds : IsActive(t) /\ txns[t].rw}
ActiveRo == {t \in TxnIds : IsActive(t) /\ ~txns[t].rw}
IsFresh(t) ==
    /\ txns[t].st = "unused"
    /\ \A u \in TxnIds : u < t => txns[u].st # "unused"

\* a transaction is borrowed while a live handle or view is bound to its
\* lifetime; commit and abort take the transaction by value, which a borrow
\* in force forbids
Borrowed(t) == \E w \in views : w.live /\ w.bound = t

\* mdb_txn_begin: a reader gets the committed snapshot at once; the engine
\* admits one writer and refuses a second one
mdb_txn_begin(rdonly) ==
    IF rdonly \/ ActiveRw = {} THEN "MDB_SUCCESS" ELSE "EBUSY"

\* mdb_txn_commit: succeeds, or the engine cannot flush
mdb_txn_commit_codes(rw) ==
    IF rw THEN {"MDB_SUCCESS", "ENOSPC"} ELSE {"MDB_SUCCESS"}

Begin(t, rw) ==
    /\ IsFresh(t)
    /\ LET r == txn_begin(mdb_txn_begin(~rw))
       IN  /\ txns' = IF r.tag = "Ok"
                      THEN [txns EXCEPT ![t] =
                              [st |-> "active", rw |-> rw, view |-> store, snap |-> store]]
                      ELSE txns
           /\ ret' = Ret(IF rw THEN "begin_rw" ELSE "begin_ro", t, 0, 0,
                         Out(r.tag, 0, r.err))
    /\ UNCHANGED <<dbflags, dbi_open, store>>

BeginRo(t) == Begin(t, FALSE)
BeginRw(t) == Begin(t, TRUE)

\* commit: the engine publishes the view when it succeeds and frees the
\* transaction either way; txn_commit reports the engine's status
Commit(t, rc) ==
    /\ IsActive(t)
    /\ cur[t].st # "open"
    /\ ~Borrowed(t)
    /\ rc \in mdb_txn_commit_codes(txns[t].rw)
    /\ LET r == txn_commit(rc)
       IN  /\ store' = IF rc = "MDB_SUCCESS" /\ txns[t].rw THEN txns[t].view ELSE store
           /\ txns' = [txns EXCEPT ![t] = Done]
           /\ ret' = Ret("commit", t, 0, 0, Out(r.tag, 0, r.err))
    /\ UNCHANGED <<dbflags, dbi_open>>

\* abort: the transaction's view is discarded; nothing is reported
Abort(t) ==
    /\ IsActive(t)
    /\ cur[t].st # "open"
    /\ ~Borrowed(t)
    /\ txns' = [txns EXCEPT ![t] = Done]
    /\ ret' = Ret("abort", t, 0, 0, Out("Ok", 0, ""))
    /\ UNCHANGED <<dbflags, dbi_open, store>>

\* ------------------------------------------------------------ cursor (engine)
\* the items after and before a position: by key and data in a DupSort
\* database, by key alone otherwise (a key has one item there, and a put on the
\* key replaces the data in place)
Above(db, flags, p) ==
    {q \in db : IF "DupSort" \in flags THEN ItemLess(flags, p, q)
                ELSE KeyLess(flags, p[1], q[1])}
Below(db, flags, p) ==
    {q \in db : IF "DupSort" \in flags THEN ItemLess(flags, q, p)
                ELSE KeyLess(flags, q[1], p[1])}
MinItem(flags, S) == CHOOSE p \in S : \A q \in S : q = p \/ ItemLess(flags, p, q)
MaxItem(flags, S) == CHOOSE p \in S : \A q \in S : q = p \/ ItemLess(flags, q, p)

\* a status of the engine with the cursor's new position and the two MDB_val
\* parameters after the call; wrote: the engine set the key parameter to the
\* stored key (memory of the transaction), otherwise it is as the caller
\* passed it
CursorAt(p) ==
    [rc |-> "MDB_SUCCESS", pos |-> p, key |-> p[1], data |-> p[2], wrote |-> TRUE]
CursorFail(rc, pos) ==
    [rc |-> rc, pos |-> pos, key |-> <<>>, data |-> <<>>, wrote |-> FALSE]
\* success of an operation that sets the data parameter and not the key
CursorAtKeyLeft(p, key) ==
    [rc |-> "MDB_SUCCESS", pos |-> p, key |-> key, data |-> p[2], wrote |-> FALSE]
\* the least (or greatest) item of S, or MDB_NOTFOUND with the cursor left at pos
Pick(flags, S, least, pos) ==
    IF S = {} THEN CursorFail("MDB_NOTFOUND", pos)
    ELSE CursorAt(IF least THEN MinItem(flags, S) ELSE MaxItem(flags, S))

\* MDB_FIRST_DUP and MDB_LAST_DUP: a key with one value is a plain node, whose
\* key and data are both returned; at a key with several values only the
\* cursor over the values moves and the key parameter is not set
DupMove(db, flags, pos, key, least) ==
    LET S == ItemsOf(db, pos[1])
    IN  IF pos = NoItem THEN CursorFail("EINVAL", pos)
        ELSE IF "DupSort" \notin flags THEN CursorFail("MDB_INCOMPATIBLE", pos)
        ELSE IF Cardinality(S) <= 1 THEN Pick(flags, S, least, pos)
        ELSE CursorAtKeyLeft(IF least THEN MinItem(flags, S) ELSE MaxItem(flags, S), key)

\* MDB_GET_BOTH and MDB_GET_BOTH_RANGE with the data parameter empty, as both
\* wrappers pass it: at a key with one value the value is compared with the
\* empty data (equal for MDB_GET_BOTH, not less for MDB_GET_BOTH_RANGE); at a
\* key with several values the empty data is no valid key of the cursor over
\* the values; the key parameter is never set
GetBothEmpty(db, flags, pos, key, exact) ==
    LET S == ItemsOf(db, key)
    IN  IF "DupSort" \notin flags THEN CursorFail("MDB_INCOMPATIBLE", pos)
        ELSE IF key = <<>> THEN CursorFail("MDB_BAD_VALSIZE", pos)
        ELSE IF S = {} THEN CursorFail("MDB_NOTFOUND", NoItem)
        ELSE IF Cardinality(S) > 1 THEN CursorFail("MDB_BAD_VALSIZE", NoItem)
        ELSE LET p == CHOOSE q \in S : TRUE
             IN  IF exact /\ p[2] # <<>> THEN CursorFail("MDB_NOTFOUND", NoItem)
                 ELSE CursorAtKeyLeft(p, key)

\* MDB_SET: the cursor goes to the key and its first value is returned; the key
\* parameter is not set ("that doesn't change key")
SetExact(db, flags, key) ==
    LET S == ItemsOf(db, key)
    IN  IF key = <<>> THEN CursorFail("MDB_BAD_VALSIZE", NoItem)
        ELSE IF S = {} THEN CursorFail("MDB_NOTFOUND", NoItem)
        ELSE CursorAtKeyLeft(MinItem(flags, S), key)

\* mdb_cursor_get: the cursor operations of CursorOpFlags
mdb_cursor_get(db, flags, pos, op, key) ==
    CASE op = "MDB_FIRST" -> Pick(flags, db, TRUE, NoItem)
      [] op = "MDB_LAST" -> Pick(flags, db, FALSE, NoItem)
      [] op = "MDB_NEXT" ->
            IF pos = NoItem THEN Pick(flags, db, TRUE, NoItem)
            ELSE Pick(flags, Above(db, flags, pos), TRUE, pos)
      [] op = "MDB_PREV" ->
            IF pos = NoItem THEN Pick(flags, db, FALSE, NoItem)
            ELSE Pick(flags, Below(db, flags, pos), FALSE, pos)
      [] op = "MDB_NEXT_DUP" ->
            IF pos = NoItem THEN Pick(flags, db, TRUE, NoItem)
            ELSE Pick(flags, {q \in Above(db, flags, pos) : q[1] = pos[1]}, TRUE, pos)
      [] op = "MDB_PREV_DUP" ->
            IF pos = NoItem THEN Pick(flags, db, FALSE, NoItem)
            ELSE Pick(flags, {q \in Below(db, flags, pos) : q[1] = pos[1]}, FALSE, pos)
      [] op = "MDB_NEXT_NODUP" ->
            IF pos = NoItem THEN Pick(flags, db, TRUE, NoItem)
            ELSE Pick(flags, {q \in db : KeyLess(flags, pos[1], q[1])}, TRUE, pos)
      [] op = "MDB_PREV_NODUP" ->
            IF pos = NoItem THEN Pick(flags, db, FALSE, NoItem)
            ELSE Pick(flags, {q \in db : KeyLess(flags, q[1], pos[1])}, FALSE, pos)
      [] op = "MDB_FIRST_DUP" -> DupMove(db, flags, pos, key, TRUE)
      [] op = "MDB_LAST_DUP" -> DupMove(db, flags, pos, key, FALSE)
      [] op = "MDB_GET_BOTH" -> GetBothEmpty(db, flags, pos, key, TRUE)
      [] op = "MDB_GET_BOTH_RANGE" -> GetBothEmpty(db, flags, pos, key, FALSE)
      [] op = "MDB_GET_CURRENT" ->
            IF pos = NoItem THEN CursorFail("EINVAL", pos)
            ELSE IF pos \in db THEN CursorAt(pos)
            ELSE IF ItemsOf(db, pos[1]) # {}
                THEN CursorAt(FirstData(ItemsOf(db, pos[1])))
            ELSE Pick(flags, Above(db, flags, pos), TRUE, pos)
      [] op = "MDB_SET" -> SetExact(db, flags, key)
      [] op = "MDB_SET_KEY" ->
            IF key = <<>> THEN CursorFail("MDB_BAD_VALSIZE", NoItem)
            ELSE Pick(flags, ItemsOf(db, key), TRUE, NoItem)
      [] op = "MDB_SET_RANGE" ->
            IF key = <<>> THEN CursorFail("MDB_BAD_VALSIZE", NoItem)
            ELSE Pick(flags, {q \in db : ~KeyLess(flags, q[1], key)}, TRUE, NoItem)
      [] OTHER -> CursorFail("EINVAL", pos)

\* error.rs: found, absent, or a failure that is neither
handle_cursor_get_code(rc) ==
    IF rc = "MDB_SUCCESS" THEN "Some"
    ELSE IF rc = "MDB_NOTFOUND" THEN "None"
    ELSE "Panic"

\* ------------------------------------------------------------ cursor (lmdb.rs)
\* the engine's operation of each flag of CursorOpFlags
CursorOpTable(flag) ==
    CASE flag = "GetCurrent" -> "MDB_GET_CURRENT"
      [] flag = "First" -> "MDB_FIRST"
      [] flag = "Last" -> "MDB_LAST"
      [] flag = "Next" -> "MDB_NEXT"
      [] flag = "Prev" -> "MDB_PREV"
      [] flag = "Set" -> "MDB_SET"
      [] flag = "SetKey" -> "MDB_SET_KEY"
      [] flag = "SetRange" -> "MDB_SET_RANGE"
      [] flag = "FirstDup" -> "MDB_FIRST_DUP"
      [] flag = "LastDup" -> "MDB_LAST_DUP"
      [] flag = "NextDup" -> "MDB_NEXT_DUP"
      [] flag = "NextNodup" -> "MDB_NEXT_NODUP"
      [] flag = "PrevDup" -> "MDB_PREV_DUP"
      [] flag = "PrevNodup" -> "MDB_PREV_NODUP"
      [] flag = "GetBoth" -> "MDB_GET_BOTH"
      [] flag = "GetBothRange" -> "MDB_GET_BOTH_RANGE"

\* mutant of CursorOp: NextDup given the discriminant of Next
CursorOp_NextDupAsNext(flag) ==
    IF flag = "NextDup" THEN "MDB_NEXT" ELSE CursorOpTable(flag)

\* mutant of CursorOp: SetRange given the discriminant of Set
CursorOp_SetRangeAsSet(flag) ==
    IF flag = "SetRange" THEN "MDB_SET" ELSE CursorOpTable(flag)

\* mutant of CursorOp: Next and Prev given each other's discriminant
CursorOp_NextPrevSwapped(flag) ==
    IF flag = "Next" THEN "MDB_PREV"
    ELSE IF flag = "Prev" THEN "MDB_NEXT"
    ELSE CursorOpTable(flag)

\* the cast of a CursorOpFlags value to the engine's operation (flags as _)
CursorOp(flag) == CursorOpTable(flag)

\* Cursor::get: key and value are out parameters
Cursor_get(db, flags, pos, flag) ==
    LET r == mdb_cursor_get(db, flags, pos, CursorOp(flag), <<>>)
        h == handle_cursor_get_code(r.rc)
    IN  [pos |-> r.pos,
         out |-> IF h = "Some" THEN OutItem("Some", <<r.key, r.data>>)
                 ELSE IF h = "None" THEN OutItem("None", NoItem)
                 ELSE Out("Panic", 0, r.rc)]

\* Cursor::get_with_key: the key parameter starts at the caller's key_in; the
\* key slice returned is whatever the parameter points at after the call
\* (keymem): memory of the transaction if the engine set it, key_in otherwise
Cursor_get_with_key(db, flags, pos, key_in, flag) ==
    LET r == mdb_cursor_get(db, flags, pos, CursorOp(flag), key_in)
        h == handle_cursor_get_code(r.rc)
    IN  [pos |-> r.pos,
         keymem |-> IF r.wrote THEN "txn" ELSE "key_in",
         out |-> IF h = "Some" THEN OutItem("Some", <<r.key, r.data>>)
                 ELSE IF h = "None" THEN OutItem("None", NoItem)
                 ELSE Out("Panic", 0, r.rc)]

\* the eight bytes read at key.mv_data: the key's own bytes, and past a shorter
\* key whatever lies behind it (one byte of it is drawn, the rest taken as zero)
Read8(key, junk) ==
    [i \in 1 .. 8 |-> IF i <= Len(key) THEN key[i]
                      ELSE IF i = Len(key) + 1 THEN junk ELSE 0]

\* mutant of Cursor_get_with_u64_key: every status but success taken as absent
Cursor_get_with_u64_key_or_none(db, flags, pos, flag, profile, junk) ==
    LET r == mdb_cursor_get(db, flags, pos, CursorOp(flag), <<>>)
        h == handle_cursor_get_code(r.rc)
    IN  [pos |-> r.pos,
         out |-> IF h # "Some" THEN OutItem("None", NoItem)
                 ELSE IF profile = "debug" /\ Len(r.key) # 8
                 THEN Out("Panic", 0, "debug_assert")
                 ELSE [tag |-> "Some", val |-> from_ne_bytes(Read8(r.key, junk)),
                       err |-> "", item |-> <<r.key, r.data>>]]

\* Cursor::get_with_u64_key: the key is decoded from eight bytes at the address
\* the engine returned; a debug build asserts the key's size first, a release
\* build reads the eight bytes whatever the key's size
Cursor_get_with_u64_key(db, flags, pos, flag, profile, junk) ==
    LET r == mdb_cursor_get(db, flags, pos, CursorOp(flag), <<>>)
        h == handle_cursor_get_code(r.rc)
    IN  [pos |-> r.pos,
         out |-> IF h = "None" THEN OutItem("None", NoItem)
                 ELSE IF h # "Some" THEN Out("Panic", 0, r.rc)
                 ELSE IF profile = "debug" /\ Len(r.key) # 8
                 THEN Out("Panic", 0, "debug_assert")
                 ELSE [tag |-> "Some", val |-> from_ne_bytes(Read8(r.key, junk)),
                       err |-> "", item |-> <<r.key, r.data>>]]

\* st: the Cursor value its holder has; eng: the engine's cursor behind it
NoCursor == [st |-> "none", pos |-> NoItem, eng |-> "none"]

\* error.rs: the status of mdb_cursor_open as a result
handle_cursor_open_code(rc) ==
    IF rc = "MDB_SUCCESS" THEN [tag |-> "Ok", err |-> ""] ELSE [tag |-> "Err", err |-> rc]

\* mutant of Cursor_open: the engine's status dropped, the Cursor built anyway
Cursor_open_unchecked(rc) == [tag |-> "Ok", err |-> ""]

\* Cursor::open: the Cursor is built only after the engine's status is checked
Cursor_open(rc) == handle_cursor_open_code(rc)

\* mdb_cursor_close on the pointer the Cursor holds: frees the engine's cursor;
\* on a pointer that is no live cursor the engine's state is lost
mdb_cursor_close(eng) == IF eng = "live" THEN "freed" ELSE "bad"

\* Cursor::open
CursorOpenRc(t, rc) ==
    /\ IsActive(t)
    /\ cur[t].st = "none"
    /\ LET r == Cursor_open(rc)
       IN  /\ cur' = IF r.tag = "Ok"
                     THEN [cur EXCEPT ![t] =
                             [st |-> "open", pos |-> NoItem,
                              eng |-> IF rc = "MDB_SUCCESS" THEN "live" ELSE "none"]]
                     ELSE cur
           /\ ret' = RetCursor("cursor_open", t, 0, "", Out(r.tag, 0, r.err))
    /\ UNCHANGED <<dbflags, dbi_open, store, txns>>

\* Cursor::open when the engine opens the cursor
CursorOpen(t) == CursorOpenRc(t, "MDB_SUCCESS")

CursorGet(t, flag) ==
    /\ cur[t].st = "open"
    /\ LET r == Cursor_get(txns[t].view, dbflags, cur[t].pos, flag)
       IN  /\ cur' = [cur EXCEPT ![t].pos = r.pos]
           /\ ret' = RetCursor("cursor_get", t, 0, flag, r.out)
    /\ UNCHANGED <<dbflags, dbi_open, store, txns>>

CursorGetWithKey(t, k, flag) ==
    /\ cur[t].st = "open"
    /\ LET r == Cursor_get_with_key(txns[t].view, dbflags, cur[t].pos, to_bytes_key(k), flag)
       IN  /\ cur' = [cur EXCEPT ![t].pos = r.pos]
           /\ ret' = RetCursor("cursor_get_with_key", t, k, flag, r.out)
    /\ UNCHANGED <<dbflags, dbi_open, store, txns>>

CursorGetWithU64Key(t, flag, profile, junk) ==
    /\ cur[t].st = "open"
    /\ LET r == Cursor_get_with_u64_key(txns[t].view, dbflags, cur[t].pos, flag, profile, junk)
       IN  /\ cur' = [cur EXCEPT ![t].pos = r.pos]
           /\ ret' = RetCursor("cursor_get_with_u64_key", t, 0, flag, r.out)
    /\ UNCHANGED <<dbflags, dbi_open, store, txns>>

\* Drop for Cursor: mdb_cursor_close
CursorClose(t) ==
    /\ cur[t].st = "open"
    /\ cur' = [cur EXCEPT ![t] =
                 [st |-> "closed", pos |-> NoItem, eng |-> mdb_cursor_close(cur[t].eng)]]
    /\ ret' = RetCursor("cursor_close", t, 0, "", Out("Ok", 0, ""))
    /\ UNCHANGED <<dbflags, dbi_open, store, txns>>

\* ------------------------------------------------------------ assoc_poly_table.rs
\* mutant of Put: put offered by the table of any transaction
Put_on_any(t, k, v) ==
    /\ IsActive(t)
    /\ LET key_bytes == to_bytes_key(k)
           value_bytes == to_bytes_val(v)
           r == lmdb_put(txns[t].view, dbflags, key_bytes, value_bytes, PutFlags_empty)
       IN  /\ txns' = [txns EXCEPT ![t].view = r.db]
           /\ ret' = Ret("put", t, k, v, Out(r.res.tag, 0, r.res.err))
    /\ UNCHANGED <<dbflags, dbi_open, store>>

\* AssocPolyTable::put: of a table built on a RwTxn
Put(t, k, v) ==
    /\ IsActive(t) /\ txns[t].rw
    /\ LET key_bytes == to_bytes_key(k)
           value_bytes == to_bytes_val(v)
           r == lmdb_put(txns[t].view, dbflags, key_bytes, value_bytes, PutFlags_empty)
       IN  /\ txns' = [txns EXCEPT ![t].view = r.db]
           /\ ret' = Ret("put", t, k, v, Out(r.res.tag, 0, r.res.err))
    /\ UNCHANGED <<dbflags, dbi_open, store>>

\* AssocPolyTable::put::<()>: the table takes a value type per call
PutUnit(t, k) ==
    /\ IsActive(t) /\ txns[t].rw
    /\ LET key_bytes == to_bytes_key(k)
           value_bytes == to_bytes_unit
           r == lmdb_put(txns[t].view, dbflags, key_bytes, value_bytes, PutFlags_empty)
       IN  /\ txns' = [txns EXCEPT ![t].view = r.db]
           /\ ret' = Ret("put_unit", t, k, 0, Out(r.res.tag, 0, r.res.err))
    /\ UNCHANGED <<dbflags, dbi_open, store>>

\* AssocPolyTable::put on a table built with K = u64
PutU64(t, k, v) ==
    /\ IsActive(t) /\ txns[t].rw
    /\ LET key_bytes == to_bytes_u64(k)
           value_bytes == to_bytes_val(v)
           r == lmdb_put(txns[t].view, dbflags, key_bytes, value_bytes, PutFlags_empty)
       IN  /\ txns' = [txns EXCEPT ![t].view = r.db]
           /\ ret' = Ret("put_u64", t, k, v, Out(r.res.tag, 0, r.res.err))
    /\ UNCHANGED <<dbflags, dbi_open, store>>

\* AssocPolyTable::put_no_overwrite
PutNoOverwrite(t, k, v) ==
    /\ IsActive(t) /\ txns[t].rw
    /\ LET key_bytes == to_bytes_key(k)
           value_bytes == to_bytes_val(v)
           r == lmdb_put(txns[t].view, dbflags, key_bytes, value_bytes, PutFlags_NoOverwrite)
       IN  /\ txns' = [txns EXCEPT ![t].view = r.db]
           /\ ret' = Ret("put_no_overwrite", t, k, v, Out(r.res.tag, 0, r.res.err))
    /\ UNCHANGED <<dbflags, dbi_open, store>>

\* AssocPolyTable::delete
Delete(t, k) ==
    /\ IsActive(t) /\ txns[t].rw
    /\ LET key_bytes == to_bytes_key(k)
           r == lmdb_del(txns[t].view, key_bytes)
       IN  /\ txns' = [txns EXCEPT ![t].view = r.db]
           /\ ret' = Ret("delete", t, k, 0,
                         IF r.res.tag = "Err" THEN Out("Err", 0, r.res.err)
                         ELSE IF r.res.found THEN Out("True", 0, "")
                         ELSE Out("False", 0, ""))
    /\ UNCHANGED <<dbflags, dbi_open, store>>

\* AssocPolyTable::clear
Clear(t) ==
    /\ IsActive(t) /\ txns[t].rw
    /\ LET r == lmdb_drop(txns[t].view)
       IN  /\ txns' = [txns EXCEPT ![t].view = r.db]
           /\ dbi_open' = r.open
           /\ ret' = Ret("clear", t, 0, 0, Out(r.res.tag, 0, r.res.err))
    /\ UNCHANGED <<dbflags, store>>

\* mutant of TableGet: bytes that do not validate reported as an absent key
TableGet_invalid_as_none(db, k) ==
    LET key_bytes == to_bytes_key(k)
        r == lmdb_get(db, key_bytes)
    IN  IF r.tag = "Err" THEN Out("Err", 0, r.err)
        ELSE IF r.tag = "None" THEN Out("None", 0, "")
        ELSE LET a == access(r.bytes)
             IN  IF a.tag = "Err" THEN Out("None", 0, "")
                 ELSE Out("Some", a.val, "")

\* AssocPolyTable::get: None when absent, else the validated view of the bytes
TableGet(db, k) ==
    LET key_bytes == to_bytes_key(k)
        r == lmdb_get(db, key_bytes)
    IN  IF r.tag = "Err" THEN Out("Err", 0, r.err)
        ELSE IF r.tag = "None" THEN Out("None", 0, "")
        ELSE LET a == access(r.bytes)
             IN  IF a.tag = "Err" THEN Out("Err", 0, "Validation")
                 ELSE Out("Some", a.val, "")

\* mutant of Get: the lookup reads the committed database, not the
\* transaction the table was built on
Get_latest(t, k) ==
    /\ IsActive(t)
    /\ ret' = Ret("get", t, k, 0, TableGet(IF txns[t].rw THEN txns[t].view ELSE store, k))
    /\ UNCHANGED <<dbflags, dbi_open, store, txns>>

Get(t, k) ==
    /\ IsActive(t)
    /\ ret' = Ret("get", t, k, 0, TableGet(txns[t].view, k))
    /\ UNCHANGED <<dbflags, dbi_open, store, txns>>

\* a statistics query on the table's database
Stat(t) ==
    /\ IsActive(t)
    /\ LET r == lmdb_stat(txns[t].view)
       IN  ret' = Ret("stat", t, 0, 0, Out(r.tag, r.ms_entries, r.err))
    /\ UNCHANGED <<dbflags, dbi_open, store, txns>>

\* ------------------------------------------------------------ borrows
\* mutant of Val_as_slice: the slice is given a lifetime no transaction bounds
Val_as_slice_static(t, via) == [src |-> t, bound |-> 0, via |-> via, live |-> TRUE]

\* Val::new_outparam and Val::as_slice: the slice an out parameter holds points
\* into the transaction's pages and gets a lifetime the transaction's outlives
Val_as_slice(t, via) == [src |-> t, bound |-> t, via |-> via, live |-> TRUE]

\* AssocPolyTable::build: the handle holds the reference to its transaction
build(t) == [src |-> t, bound |-> t, via |-> "table", live |-> TRUE]

\* a borrow replaces the record of an earlier one of the same kind and source
WithBorrow(w) == {x \in views : x.src # w.src \/ x.via # w.via} \cup {w}

\* the views after a call: get and the cursor's calls hand out a view when
\* they return an item
ViewsNext ==
    IF ret'.op \in {"get", "cursor_get", "cursor_get_with_key"} /\ ret'.out.tag = "Some"
    THEN WithBorrow(Val_as_slice(ret'.txn, ret'.op))
    ELSE views

\* the memory a returned slice points at: the bytes it held when the slice was
\* returned (was), the bytes it holds now, the key they were stored under, and
\* whether it lies in a page the transaction has already written (a small
\* database is one leaf page, dirty once the transaction's view differs from
\* the snapshot it began with); a clean page is never written again, a dirty
\* page is updated in place by the transaction's later writes
Denoting(w, key, bytes, dirty) ==
    w @@ [key |-> key, was |-> bytes, now |-> bytes, dirty |-> dirty]
PageDirty(t) == txns[t].rw /\ txns[t].view # txns[t].snap

\* what a write of the transaction does to the memory of a slice in a dirty
\* page: a put on the slice's key copies the new data, of the same size, over
\* the old; a delete or a clear frees or compacts the node, after which the
\* memory holds its old bytes still or something else
Rewritten(w, keep, junk) ==
    IF ~(w.live /\ w.dirty /\ w.src = ret'.txn) THEN w
    ELSE IF ret'.op = "put" /\ ret'.out.tag = "Ok" /\ w.key = to_bytes_key(ret'.key)
        THEN [w EXCEPT !.now = to_bytes_val(ret'.val)]
    ELSE IF \/ ret'.op = "delete" /\ ret'.out.tag = "True" /\ w.key = to_bytes_key(ret'.key)
            \/ ret'.op = "clear" /\ ret'.out.tag = "Ok"
        THEN [w EXCEPT !.now = IF keep THEN w.now ELSE <<junk>>]
    ELSE w

\* the slices after a call, with the memory they point at
ViewsAfter(keep, junk) ==
    IF ret'.op = "get" /\ ret'.out.tag = "Some"
    THEN WithBorrow(Denoting(Val_as_slice(ret'.txn, ret'.op), to_bytes_key(ret'.key),
                             to_bytes_val(ret'.out.val), PageDirty(ret'.txn)))
    ELSE IF ret'.op = "cursor_get" /\ ret'.out.tag = "Some"
    THEN WithBorrow(Denoting(Val_as_slice(ret'.txn, ret'.op), ret'.out.item[1],
                             ret'.out.item[2], PageDirty(ret'.txn)))
    ELSE {Rewritten(w, keep, junk) : w \in views}

\* a table handle is built on a transaction
Build(t) ==
    /\ IsActive(t)
    /\ views' = WithBorrow(build(t))
    /\ ret' = Ret("build", t, 0, 0, Out("Ok", 0, ""))
    /\ UNCHANGED <<dbflags, dbi_open, store, txns>>

\* the holder reads through a live handle or view
UseView(w) ==
    /\ w \in views /\ w.live
    /\ ret' = Ret("use", w.src, 0, 0, Out("Ok", 0, ""))
    /\ UNCHANGED <<dbflags, dbi_open, store, txns, views>>

\* the holder lets a handle or view go
DropView(w) ==
    /\ w \in views /\ w.live
    /\ views' = WithBorrow([src |-> w.src, bound |-> w.bound, via |-> w.via, live |-> FALSE])
    /\ ret' = Ret("drop", w.src, 0, 0, Out("Ok", 0, ""))
    /\ UNCHANGED <<dbflags, dbi_open, store, txns>>

\* ------------------------------------------------------------ history
\* puts[0] belongs to the committed store, puts[t] to transaction t: per key
\* the value of the last successful put that no later delete, clear or
\* put_no_overwrite touched (0 when there is none)
NoPuts == [k \in Keys |-> 0]
PutsInit == [i \in {0} \cup TxnIds |-> NoPuts]

\* the history as the step just taken (named by ret') leaves it
PutsNext ==
    LET t == ret'.txn
        ok == ret'.out.tag = "Ok"
    IN  IF ret'.op \in {"begin_ro", "begin_rw"} /\ ok
            THEN [puts EXCEPT ![t] = puts[0]]
        ELSE IF ret'.op = "commit"
            THEN [puts EXCEPT ![0] = IF store' = txns[t].view /\ txns[t].rw
                                     THEN puts[t] ELSE @,
                              ![t] = NoPuts]
        ELSE IF ret'.op = "abort" THEN [puts EXCEPT ![t] = NoPuts]
        ELSE IF ret'.op = "put" /\ ok THEN [puts EXCEPT ![t][ret'.key] = ret'.val]
        ELSE IF ret'.op = "put_no_overwrite" /\ ok THEN [puts EXCEPT ![t][ret'.key] = 0]
        ELSE IF ret'.op = "delete" THEN [puts EXCEPT ![t][ret'.key] = 0]
        ELSE IF ret'.op = "clear" THEN [puts EXCEPT ![t] = NoPuts]
        ELSE puts

\* what a cursor of transaction scan.txn returned since First (mode "fwd"),
\* Last ("bwd") or FirstDup ("dup") positioned it, while only Next, Prev or
\* NextDup moved it and nothing was written; done once a call returned absent
NoScan == [txn |-> 0, mode |-> "none", items |-> <<>>, done |-> FALSE]
ScanStart(t, mode, out) ==
    IF out.tag = "Some" THEN [txn |-> t, mode |-> mode, items |-> <<out.item>>, done |-> FALSE]
    ELSE IF out.tag = "None" THEN [txn |-> t, mode |-> mode, items |-> <<>>, done |-> TRUE]
    ELSE NoScan
ScanStep(out) ==
    IF out.tag = "Some" THEN [scan EXCEPT !.items = Append(@, out.item)]
    ELSE IF out.tag = "None" THEN [scan EXCEPT !.done = TRUE]
    ELSE NoScan
ScanNext ==
    LET t == ret'.txn
        f == ret'.flag
        going == scan.txn = t /\ ~scan.done
    IN  IF ret'.op = "cursor_get" /\ f = "First" THEN ScanStart(t, "fwd", ret'.out)
        ELSE IF ret'.op = "cursor_get" /\ f = "Last" THEN ScanStart(t, "bwd", ret'.out)
        ELSE IF ret'.op = "cursor_get" /\ f = "FirstDup" THEN ScanStart(t, "dup", ret'.out)
        ELSE IF ret'.op = "cursor_get" /\ f = "Next" /\ going /\ scan.mode = "fwd"
            THEN ScanStep(ret'.out)
        ELSE IF ret'.op = "cursor_get" /\ f = "Prev" /\ going /\ scan.mode = "bwd"
            THEN ScanStep(ret'.out)
        ELSE IF ret'.op = "cursor_get" /\ f = "NextDup" /\ going /\ scan.mode = "dup"
            THEN ScanStep(ret'.out)
        ELSE IF t = scan.txn /\ ret'.op \notin {"get", "stat"} THEN NoScan
        ELSE scan

\* ------------------------------------------------------------ specification
InitWith(flagsets) ==
    /\ dbflags \in flagsets
    /\ dbi_open = TRUE
    /\ store = {}
    /\ txns = [t \in TxnIds |-> Unused]
    /\ ret = Ret("none", 0, 0, 0, Out("Ok", 0, ""))
    /\ puts = PutsInit
    /\ cur = [t \in TxnIds |-> NoCursor]
    /\ scan = NoScan
    /\ views = {}

\* the keys and values the table calls of Spec draw from
KvKeys == {1, 256}
KvValues == {97, 98}

Init == InitWith({{}, {"DupSort"}})

Next ==
    \/ \E t \in TxnIds : BeginRo(t) /\ UNCHANGED <<cur, puts, scan, views>>
    \/ \E t \in TxnIds : BeginRw(t) /\ UNCHANGED <<cur, puts, scan, views>>
    \/ \E t \in TxnIds, rc \in {"MDB_SUCCESS", "ENOSPC"} : Commit(t, rc) /\ UNCHANGED <<cur, puts, scan, views>>
    \/ \E t \in TxnIds : Abort(t) /\ UNCHANGED <<cur, puts, scan, views>>
    \/ \E t \in TxnIds, k \in KvKeys, v \in KvValues : Put(t, k, v) /\ UNCHANGED <<cur, puts, scan, views>>
    \/ \E t \in TxnIds, k \in KvKeys, v \in KvValues :
            PutNoOverwrite(t, k, v) /\ UNCHANGED <<cur, puts, scan, views>>
    \/ \E t \in TxnIds, k \in KvKeys : Delete(t, k) /\ UNCHANGED <<cur, puts, scan, views>>
    \/ \E t \in TxnIds : Clear(t) /\ UNCHANGED <<cur, puts, scan, views>>
    \/ \E t \in TxnIds, k \in KvKeys : Get(t, k) /\ UNCHANGED <<cur, puts, scan, views>>
    \/ \E t \in TxnIds : Stat(t) /\ UNCHANGED <<cur, puts, scan, views>>

Spec == Init /\ [][Next]_vars

\* Spec's table calls with the history of puts kept
NextPuts ==
    \/ \E t \in TxnIds : BeginRo(t) /\ puts' = PutsNext /\ UNCHANGED <<cur, scan, views>>
    \/ \E t \in TxnIds : BeginRw(t) /\ puts' = PutsNext /\ UNCHANGED <<cur, scan, views>>
    \/ \E t \in TxnIds, rc \in {"MDB_SUCCESS", "ENOSPC"} : Commit(t, rc) /\ puts' = PutsNext /\ UNCHANGED <<cur, scan, views>>
    \/ \E t \in TxnIds : Abort(t) /\ puts' = PutsNext /\ UNCHANGED <<cur, scan, views>>
    \/ \E t \in TxnIds, k \in KvKeys, v \in KvValues : Put(t, k, v) /\ puts' = PutsNext /\ UNCHANGED <<cur, scan, views>>
    \/ \E t \in TxnIds, k \in KvKeys : Delete(t, k) /\ puts' = PutsNext /\ UNCHANGED <<cur, scan, views>>
    \/ \E t \in TxnIds : Clear(t) /\ puts' = PutsNext /\ UNCHANGED <<cur, scan, views>>
    \/ \E t \in TxnIds, k \in KvKeys : Get(t, k) /\ puts' = PutsNext /\ UNCHANGED <<cur, scan, views>>

SpecPuts == Init /\ [][NextPuts]_vars

\* the cursor's absolute and relative moves, on every kind of database, with
\* the history of scans kept
InitCursor == InitWith(SUBSET DbFlags)
CursorTxns == {1, 2}
CursorPairs == {<<1, 97>>, <<1, 98>>, <<2, 97>>, <<256, 97>>}
CursorFlags == {"First", "Last", "Next", "Prev"}

NextCursor ==
    \/ \E t \in CursorTxns : BeginRo(t) /\ scan' = ScanNext /\ UNCHANGED <<cur, puts, views>>
    \/ \E t \in CursorTxns : BeginRw(t) /\ scan' = ScanNext /\ UNCHANGED <<cur, puts, views>>
    \/ \E t \in CursorTxns :
            Commit(t, "MDB_SUCCESS") /\ scan' = ScanNext /\ UNCHANGED <<cur, puts, views>>
    \/ \E t \in CursorTxns, p \in CursorPairs :
            Put(t, p[1], p[2]) /\ scan' = ScanNext /\ UNCHANGED <<cur, puts, views>>
    \/ \E t \in CursorTxns : CursorOpen(t) /\ scan' = ScanNext /\ UNCHANGED <<puts, views>>
    \/ \E t \in CursorTxns, flag \in CursorFlags :
            CursorGet(t, flag) /\ scan' = ScanNext /\ UNCHANGED <<puts, views>>
    \/ \E t \in CursorTxns : CursorClose(t) /\ scan' = ScanNext /\ UNCHANGED <<puts, views>>

SpecCursor == InitCursor /\ [][NextCursor]_vars

\* the duplicate-aware moves, on DupSort databases
InitDup == InitWith({{"DupSort"}, {"DupSort", "ReverseKey"}})
DupPairs == {<<1, 97>>, <<1, 98>>, <<1, 99>>, <<2, 97>>, <<2, 98>>}
DupFlags == {"FirstDup", "NextDup", "NextNodup"}
DupKeyFlags == {"SetKey"}

NextDup ==
    \/ \E t \in CursorTxns : BeginRo(t) /\ scan' = ScanNext /\ UNCHANGED <<cur, puts, views>>
    \/ \E t \in CursorTxns : BeginRw(t) /\ scan' = ScanNext /\ UNCHANGED <<cur, puts, views>>
    \/ \E t \in CursorTxns :
            Commit(t, "MDB_SUCCESS") /\ scan' = ScanNext /\ UNCHANGED <<cur, puts, views>>
    \/ \E t \in CursorTxns, p \in DupPairs :
            Put(t, p[1], p[2]) /\ scan' = ScanNext /\ UNCHANGED <<cur, puts, views>>
    \/ \E t \in CursorTxns : CursorOpen(t) /\ scan' = ScanNext /\ UNCHANGED <<puts, views>>
    \/ \E t \in CursorTxns, flag \in DupFlags :
            CursorGet(t, flag) /\ scan' = ScanNext /\ UNCHANGED <<puts, views>>
    \/ \E t \in CursorTxns, k \in {1, 2}, flag \in DupKeyFlags :
            CursorGetWithKey(t, k, flag) /\ scan' = ScanNext /\ UNCHANGED <<puts, views>>
    \/ \E t \in CursorTxns : CursorClose(t) /\ scan' = ScanNext /\ UNCHANGED <<puts, views>>

SpecDup == InitDup /\ [][NextDup]_vars

\* readers beside a writer: table and cursor reads in every transaction while
\* writers put, delete and commit
IsoPairs == {<<1, 97>>, <<1, 98>>, <<256, 97>>}
IsoKeys == {1}
IsoFlags == {"First", "Next"}
IsoKeyFlags == {"SetRange"}

NextIso ==
    \/ \E t \in TxnIds : BeginRo(t) /\ UNCHANGED <<cur, puts, scan, views>>
    \/ \E t \in TxnIds : BeginRw(t) /\ UNCHANGED <<cur, puts, scan, views>>
    \/ \E t \in TxnIds : Commit(t, "MDB_SUCCESS") /\ UNCHANGED <<cur, puts, scan, views>>
    \/ \E t \in TxnIds, p \in IsoPairs :
            Put(t, p[1], p[2]) /\ UNCHANGED <<cur, puts, scan, views>>
    \/ \E t \in TxnIds, k \in IsoKeys : Delete(t, k) /\ UNCHANGED <<cur, puts, scan, views>>
    \/ \E t \in TxnIds, k \in IsoKeys : Get(t, k) /\ UNCHANGED <<cur, puts, scan, views>>
    \/ \E t \in TxnIds : CursorOpen(t) /\ UNCHANGED <<puts, scan, views>>
    \/ \E t \in TxnIds, flag \in IsoFlags : CursorGet(t, flag) /\ UNCHANGED <<puts, scan, views>>
    \/ \E t \in TxnIds, k \in IsoKeys, flag \in IsoKeyFlags :
            CursorGetWithKey(t, k, flag) /\ UNCHANGED <<puts, scan, views>>
    \/ \E t \in TxnIds : CursorClose(t) /\ UNCHANGED <<puts, scan, views>>

SpecIso == Init /\ [][NextIso]_vars

\* handles and views held across the end of transactions
LifeKeys == {1}
LifeValues == {97}
LifeFlags == {"First"}

NextLife ==
    \/ \E t \in CursorTxns : BeginRo(t) /\ UNCHANGED <<cur, puts, scan, views>>
    \/ \E t \in CursorTxns : BeginRw(t) /\ UNCHANGED <<cur, puts, scan, views>>
    \/ \E t \in CursorTxns, rc \in {"MDB_SUCCESS", "ENOSPC"} :
            Commit(t, rc) /\ UNCHANGED <<cur, puts, scan, views>>
    \/ \E t \in CursorTxns : Abort(t) /\ UNCHANGED <<cur, puts, scan, views>>
    \/ \E t \in CursorTxns : Build(t) /\ UNCHANGED <<cur, puts, scan>>
    \/ \E t \in CursorTxns, k \in LifeKeys, v \in LifeValues :
            Put(t, k, v) /\ UNCHANGED <<cur, puts, scan, views>>
    \/ \E t \in CursorTxns, k \in LifeKeys :
            Get(t, k) /\ views' = ViewsNext /\ UNCHANGED <<cur, puts, scan>>
    \/ \E t \in CursorTxns : CursorOpen(t) /\ UNCHANGED <<puts, scan, views>>
    \/ \E t \in CursorTxns, flag \in LifeFlags :
            CursorGet(t, flag) /\ views' = ViewsNext /\ UNCHANGED <<puts, scan>>
    \/ \E t \in CursorTxns : CursorClose(t) /\ UNCHANGED <<puts, scan, views>>
    \/ \E w \in views : UseView(w) /\ UNCHANGED <<cur, puts, scan>>
    \/ \E w \in views : DropView(w) /\ UNCHANGED <<cur, puts, scan>>

SpecLife == Init /\ [][NextLife]_vars

\* a table used with two value types: u8 values are read, u8 and () values put
PolyKeys == {1}

NextPoly ==
    \/ \E t \in TxnIds : BeginRo(t) /\ UNCHANGED <<cur, puts, scan, views>>
    \/ \E t \in TxnIds : BeginRw(t) /\ UNCHANGED <<cur, puts, scan, views>>
    \/ \E t \in TxnIds : Commit(t, "MDB_SUCCESS") /\ UNCHANGED <<cur, puts, scan, views>>
    \/ \E t \in TxnIds, k \in PolyKeys, v \in KvValues :
            Put(t, k, v) /\ UNCHANGED <<cur, puts, scan, views>>
    \/ \E t \in TxnIds, k \in PolyKeys : PutUnit(t, k) /\ UNCHANGED <<cur, puts, scan, views>>
    \/ \E t \in TxnIds, k \in PolyKeys : Delete(t, k) /\ UNCHANGED <<cur, puts, scan, views>>
    \/ \E t \in TxnIds, k \in PolyKeys : Get(t, k) /\ UNCHANGED <<cur, puts, scan, views>>

SpecPoly == Init /\ [][NextPoly]_vars

\* the three positioning calls of a cursor, on databases whose keys are u64
\* (eight bytes) or u16 (two bytes), in debug and in release builds
CallFlags == {"First", "Next", "FirstDup", "GetCurrent"}
CallKeyFlags == {"SetRange", "SetKey"}
U64Keys == {1, 256}
ShortKeys == {1}
Profiles == {"debug", "release"}
Junk == {0, 7}

NextCalls ==
    \/ \E t \in CursorTxns : BeginRw(t) /\ UNCHANGED <<cur, puts, scan, views>>
    \/ \E t \in CursorTxns : Commit(t, "MDB_SUCCESS") /\ UNCHANGED <<cur, puts, scan, views>>
    \/ \E t \in CursorTxns, k \in ShortKeys :
            Put(t, k, 97) /\ UNCHANGED <<cur, puts, scan, views>>
    \/ \E t \in CursorTxns, k \in U64Keys :
            PutU64(t, k, 97) /\ UNCHANGED <<cur, puts, scan, views>>
    \/ \E t \in CursorTxns : CursorOpen(t) /\ UNCHANGED <<puts, scan, views>>
    \/ \E t \in CursorTxns, flag \in CallFlags :
            CursorGet(t, flag) /\ UNCHANGED <<puts, scan, views>>
    \/ \E t \in CursorTxns, k \in ShortKeys, flag \in CallKeyFlags :
            CursorGetWithKey(t, k, flag) /\ UNCHANGED <<puts, scan, views>>
    \/ \E t \in CursorTxns, flag \in CallFlags, profile \in Profiles, junk \in Junk :
            CursorGetWithU64Key(t, flag, profile, junk) /\ UNCHANGED <<puts, scan, views>>
    \/ \E t \in CursorTxns : CursorClose(t) /\ UNCHANGED <<puts, scan, views>>

SpecCalls == Init /\ [][NextCalls]_vars

\* every call of the table and of the cursor, on read-only and on read-write
\* transactions
CapKeys == {1}
CapFlags == {"First", "Next"}

NextCap ==
    \/ \E t \in CursorTxns : BeginRo(t) /\ UNCHANGED <<cur, puts, scan, views>>
    \/ \E t \in CursorTxns : BeginRw(t) /\ UNCHANGED <<cur, puts, scan, views>>
    \/ \E t \in CursorTxns, rc \in {"MDB_SUCCESS", "ENOSPC"} :
            Commit(t, rc) /\ UNCHANGED <<cur, puts, scan, views>>
    \/ \E t \in CursorTxns : Abort(t) /\ UNCHANGED <<cur, puts, scan, views>>
    \/ \E t \in CursorTxns : Build(t) /\ UNCHANGED <<cur, puts, scan>>
    \/ \E w \in views : DropView(w) /\ UNCHANGED <<cur, puts, scan>>
    \/ \E t \in CursorTxns, k \in CapKeys, v \in KvValues :
            Put(t, k, v) /\ UNCHANGED <<cur, puts, scan, views>>
    \/ \E t \in CursorTxns, k \in CapKeys, v \in KvValues :
            PutNoOverwrite(t, k, v) /\ UNCHANGED <<cur, puts, scan, views>>
    \/ \E t \in CursorTxns, k \in CapKeys : Delete(t, k) /\ UNCHANGED <<cur, puts, scan, views>>
    \/ \E t \in CursorTxns : Clear(t) /\ UNCHANGED <<cur, puts, scan, views>>
    \/ \E t \in CursorTxns, k \in CapKeys : Get(t, k) /\ UNCHANGED <<cur, puts, scan, views>>
    \/ \E t \in CursorTxns : CursorOpen(t) /\ UNCHANGED <<puts, scan, views>>
    \/ \E t \in CursorTxns, flag \in CapFlags :
            CursorGet(t, flag) /\ UNCHANGED <<puts, scan, views>>
    \/ \E t \in CursorTxns : CursorClose(t) /\ UNCHANGED <<puts, scan, views>>

SpecCap == Init /\ [][NextCap]_vars

\* cursors opened, used and dropped, the engine refusing some opens; the holder
\* of a Cursor leaves the scope that owns it, which drops it
ReleaseFlags == {"First", "FirstDup"}

NextRelease ==
    \/ \E t \in CursorTxns : BeginRo(t) /\ UNCHANGED <<cur, puts, scan, views>>
    \/ \E t \in CursorTxns : BeginRw(t) /\ UNCHANGED <<cur, puts, scan, views>>
    \/ \E t \in CursorTxns, rc \in {"MDB_SUCCESS", "ENOSPC"} :
            Commit(t, rc) /\ UNCHANGED <<cur, puts, scan, views>>
    \/ \E t \in CursorTxns : Abort(t) /\ UNCHANGED <<cur, puts, scan, views>>
    \/ \E t \in CursorTxns, v \in KvValues :
            Put(t, 1, v) /\ UNCHANGED <<cur, puts, scan, views>>
    \/ \E t \in CursorTxns, rc \in {"MDB_SUCCESS", "EINVAL"} :
            CursorOpenRc(t, rc) /\ UNCHANGED <<puts, scan, views>>
    \/ \E t \in CursorTxns, flag \in ReleaseFlags :
            CursorGet(t, flag) /\ UNCHANGED <<puts, scan, views>>
    \/ \E t \in CursorTxns : CursorClose(t) /\ UNCHANGED <<puts, scan, views>>

SpecRelease ==
    /\ Init /\ [][NextRelease]_vars
    /\ \A t \in CursorTxns : WF_vars(CursorClose(t) /\ UNCHANGED <<puts, scan, views>>)

\* a cursor positioned by key, on every kind of database
SeekKeys == {1, 2, 3}
SeekKeyFlags == {"Set", "SetKey", "SetRange"}
SeekFlags == {"GetCurrent", "Next"}

NextSeek ==
    \/ \E t \in CursorTxns : BeginRo(t) /\ UNCHANGED <<cur, puts, scan, views>>
    \/ \E t \in CursorTxns : BeginRw(t) /\ UNCHANGED <<cur, puts, scan, views>>
    \/ \E t \in CursorTxns :
            Commit(t, "MDB_SUCCESS") /\ UNCHANGED <<cur, puts, scan, views>>
    \/ \E t \in CursorTxns, p \in CursorPairs :
            Put(t, p[1], p[2]) /\ UNCHANGED <<cur, puts, scan, views>>
    \/ \E t \in CursorTxns : CursorOpen(t) /\ UNCHANGED <<puts, scan, views>>
    \/ \E t \in CursorTxns, flag \in SeekFlags :
            CursorGet(t, flag) /\ UNCHANGED <<puts, scan, views>>
    \/ \E t \in CursorTxns, k \in SeekKeys, flag \in SeekKeyFlags :
            CursorGetWithKey(t, k, flag) /\ UNCHANGED <<puts, scan, views>>
    \/ \E t \in CursorTxns : CursorClose(t) /\ UNCHANGED <<puts, scan, views>>

SpecSeek == InitCursor /\ [][NextSeek]_vars

\* slices held while their transaction goes on writing, on a database without
\* duplicates
StableKeys == {1}

NextStable ==
    \/ \E t \in CursorTxns : BeginRo(t) /\ UNCHANGED <<cur, puts, scan, views>>
    \/ \E t \in CursorTxns : BeginRw(t) /\ UNCHANGED <<cur, puts, scan, views>>
    \/ \E t \in CursorTxns : Commit(t, "MDB_SUCCESS") /\ UNCHANGED <<cur, puts, scan, views>>
    \/ \E t \in CursorTxns, k \in StableKeys, v \in KvValues :
            Put(t, k, v) /\ views' = ViewsAfter(TRUE, 0) /\ UNCHANGED <<cur, puts, scan>>
    \/ \E t \in CursorTxns, k \in StableKeys, v \in KvValues :
            PutNoOverwrite(t, k, v) /\ views' = ViewsAfter(TRUE, 0)
                /\ UNCHANGED <<cur, puts, scan>>
    \/ \E t \in CursorTxns, k \in StableKeys, keep \in BOOLEAN, junk \in Junk :
            Delete(t, k) /\ views' = ViewsAfter(keep, junk) /\ UNCHANGED <<cur, puts, scan>>
    \/ \E t \in CursorTxns, keep \in BOOLEAN, junk \in Junk :
            Clear(t) /\ views' = ViewsAfter(keep, junk) /\ UNCHANGED <<cur, puts, scan>>
    \/ \E t \in CursorTxns, k \in StableKeys :
            Get(t, k) /\ views' = ViewsAfter(TRUE, 0) /\ UNCHANGED <<cur, puts, scan>>
    \/ \E t \in CursorTxns : CursorOpen(t) /\ UNCHANGED <<puts, scan, views>>
    \/ \E t \in CursorTxns :
            CursorGet(t, "First") /\ views' = ViewsAfter(TRUE, 0) /\ UNCHANGED <<puts, scan>>
    \/ \E t \in CursorTxns : CursorClose(t) /\ UNCHANGED <<puts, scan, views>>
    \/ \E w \in views : DropView(w) /\ UNCHANGED <<cur, puts, scan>>

SpecStable == InitWith({{}}) /\ [][NextStable]_vars

\* get_with_key under every flag that takes a key and under flags that take
\* none, on a database with duplicates and on one without
ProvPairs == {<<1, 97>>, <<1, 98>>, <<2, 97>>}
ProvKeys == {1, 2}
ProvKeyFlags ==
    {"Set", "SetKey", "SetRange", "GetBoth", "GetBothRange",
     "FirstDup", "LastDup", "First", "Next", "GetCurrent"}

NextProv ==
    \/ \E t \in CursorTxns : BeginRo(t) /\ UNCHANGED <<cur, puts, scan, views>>
    \/ \E t \in CursorTxns : BeginRw(t) /\ UNCHANGED <<cur, puts, scan, views>>
    \/ \E t \in CursorTxns : Commit(t, "MDB_SUCCESS") /\ UNCHANGED <<cur, puts, scan, views>>
    \/ \E t \in CursorTxns, p \in ProvPairs :
            Put(t, p[1], p[2]) /\ UNCHANGED <<cur, puts, scan, views>>
    \/ \E t \in CursorTxns : CursorOpen(t) /\ UNCHANGED <<puts, scan, views>>
    \/ \E t \in CursorTxns, k \in ProvKeys, f \in ProvKeyFlags :
            CursorGetWithKey(t, k, f) /\ UNCHANGED <<puts, scan, views>>
    \/ \E t \in CursorTxns : CursorClose(t) /\ UNCHANGED <<puts, scan, views>>

SpecProv == InitWith({{}, {"DupSort"}}) /\ [][NextProv]_vars

\* ------------------------------------------------------------ claims
Some(v) == Out("Some", v, "")
None == Out("None", 0, "")
StoredValues(db, k) == {p[2][1] : p \in ItemsOf(db, to_bytes_key(k))}

C2_NoOverwrite ==
    [][ret'.op = "put_no_overwrite"
        => LET before == txns[ret'.txn].view
               after == txns'[ret'.txn].view
           IN  IF TableGet(before, ret'.key).tag # "None"
               THEN /\ ret'.out = Out("Err", 0, "KeyExists")
                    /\ after = before
                    /\ TableGet(after, ret'.key) = TableGet(before, ret'.key)
               ELSE /\ ret'.out.tag = "Ok"
                    /\ TableGet(after, ret'.key) = Some(ret'.val)]_vars

\* a second value was refused and the first one is still the stored one
C2_Witness ==
    /\ ret.op = "put_no_overwrite"
    /\ ret.out.err = "KeyExists"
    /\ TableGet(txns[ret.txn].view, ret.key).tag = "Some"
    /\ TableGet(txns[ret.txn].view, ret.key).val # ret.val

\* C3: delete returns true exactly when the key was present; after true the key
\* is absent in the same transaction; false changes nothing and is no error
C3_Delete ==
    [][ret'.op = "delete"
        => LET before == txns[ret'.txn].view
               after == txns'[ret'.txn].view
               present == TableGet(before, ret'.key).tag # "None"
           IN  /\ ret'.out.tag \in {"True", "False"}
               /\ (ret'.out.tag = "True") <=> present
               /\ ret'.out.tag = "True" => TableGet(after, ret'.key) = None
               /\ ret'.out.tag = "False" => after = before
               /\ \A k \in Keys \ {ret'.key} : TableGet(after, k) = TableGet(before, k)]_vars

\* a key was deleted while another key stayed
C3_Witness ==
    /\ ret.op = "delete"
    /\ ret.out.tag = "True"
    /\ TableGet(txns[ret.txn].view, ret.key) = None
    /\ txns[ret.txn].view # {}

\* C4: after clear every key is absent, the statistics report zero entries, and
\* the database handle stays open, so no later call fails for a closed handle
C4_Clear ==
    /\ dbi_open
    /\ ret.out.err # "MDB_BAD_DBI"
    /\ ret.op = "clear"
        => /\ ret.out.tag = "Ok"
           /\ \A k \in Keys : TableGet(txns[ret.txn].view, k) = None
           /\ lmdb_stat(txns[ret.txn].view).tag = "Ok"
           /\ lmdb_stat(txns[ret.txn].view).ms_entries = 0

\* a put into a database that was cleared in this transaction after it held items
C4_Witness ==
    /\ ret.op = "put"
    /\ ret.out.tag = "Ok"
    /\ Cardinality(txns[ret.txn].snap) > 1
    /\ txns[ret.txn].view = {<<to_bytes_key(ret.key), to_bytes_val(ret.val)>>}
    /\ txns[ret.txn].view \cap txns[ret.txn].snap = {}
    /\ "DupSort" \in dbflags

\* C6: at most one read-write transaction is active; beginning a second one
\* fails and creates nothing; beginning a read-only one always succeeds
C6_SingleWriter ==
    /\ [](Cardinality(ActiveRw) <= 1)
    /\ [][/\ ret'.op = "begin_rw" /\ ActiveRw # {}
              => ret'.out.tag = "Err" /\ txns' = txns
          /\ ret'.op = "begin_rw" /\ ActiveRw = {}
              => ret'.out.tag = "Ok" /\ txns'[ret'.txn].st = "active" /\ txns'[ret'.txn].rw
          /\ ret'.op = "begin_ro"
              => ret'.out.tag = "Ok" /\ txns'[ret'.txn].st = "active"]_vars

\* a second writer was refused while a writer and a reader were active
C6_Witness ==
    /\ ret.op = "begin_rw"
    /\ ret.out.tag = "Err"
    /\ ActiveRw # {}
    /\ ActiveRo # {}

\* C7: the committed store changes only by a successful commit of a read-write
\* transaction, which publishes exactly that transaction's view; a commit
\* reported as success has published; a failed commit and an abort leave the
\* store as it was and abort reports no failure; a transaction begins with the
\* store as committed at that moment
C7_Atomicity ==
    [][LET t == ret'.txn
       IN  /\ store' # store
               => ret'.op = "commit" /\ ret'.out.tag = "Ok" /\ txns[t].rw
           /\ ret'.op = "commit" /\ ret'.out.tag = "Ok" /\ txns[t].rw
               => store' = txns[t].view
           /\ ret'.op = "commit" /\ ret'.out.tag = "Err" => store' = store
           /\ ret'.op = "abort" => store' = store /\ ret'.out.tag = "Ok"
           /\ ret'.op \in {"begin_ro", "begin_rw"} /\ ret'.out.tag = "Ok"
               => txns'[t].view = store /\ store' = store]_vars

\* a commit published items that a reader begun before it does not see
C7_Witness ==
    /\ ret.op = "commit"
    /\ ret.out.tag = "Ok"
    /\ store # {}
    /\ \E u \in ActiveRo : txns[u].view # store

\* the order of two-byte keys from the first byte on, and from the last byte back
Lex2Less(a, b) == a[1] < b[1] \/ (a[1] = b[1] /\ a[2] < b[2])
Rev2Less(a, b) == a[2] < b[2] \/ (a[2] = b[2] /\ a[1] < b[1])
\* the key order of the database: ReverseKey compares from the last byte back
DbKeyLess(a, b) == IF "ReverseKey" \in dbflags THEN Rev2Less(a, b) ELSE Lex2Less(a, b)
DbItemLess(p, q) == DbKeyLess(p[1], q[1]) \/ (p[1] = q[1] /\ p[2][1] < q[2][1])
\* the key order C9 states: ascending, and descending under ReverseKey
StatedItemLess(p, q) ==
    \/ IF "ReverseKey" \in dbflags THEN Lex2Less(q[1], p[1]) ELSE Lex2Less(p[1], q[1])
    \/ p[1] = q[1] /\ p[2][1] < q[2][1]
Range(seq) == {seq[i] : i \in 1 .. Len(seq)}
ScanView == txns[scan.txn].view
ScanEnded(mode) == scan.mode = mode /\ scan.done

\* C9 as stated: First and then Next until absent yields every item once, in
\* ascending key order, and in descending key order on a ReverseKey database;
\* Last and then Prev yields the reverse
C9_CursorOrder_AsStated ==
    /\ ScanEnded("fwd")
        => /\ Len(scan.items) = Cardinality(ScanView) /\ Range(scan.items) = ScanView
           /\ \A i, j \in 1 .. Len(scan.items) :
                i < j => StatedItemLess(scan.items[i], scan.items[j])
    /\ ScanEnded("bwd")
        => /\ Len(scan.items) = Cardinality(ScanView) /\ Range(scan.items) = ScanView
           /\ \A i, j \in 1 .. Len(scan.items) :
                i < j => StatedItemLess(scan.items[j], scan.items[i])

\* C9 amended: the order is ascending in the database's key order also on a
\* ReverseKey database, whose key order compares the bytes from the last one
\* back; every stored item comes once (a key once per duplicate), the call
\* after the last item returns absent and no call fails
C9_CursorOrder ==
    /\ ScanEnded("fwd")
        => /\ Len(scan.items) = Cardinality(ScanView) /\ Range(scan.items) = ScanView
           /\ \A i, j \in 1 .. Len(scan.items) :
                i < j => DbItemLess(scan.items[i], scan.items[j])
    /\ ScanEnded("bwd")
        => /\ Len(scan.items) = Cardinality(ScanView) /\ Range(scan.items) = ScanView
           /\ \A i, j \in 1 .. Len(scan.items) :
                i < j => DbItemLess(scan.items[j], scan.items[i])
    /\ ret.op = "cursor_get" /\ ret.flag \in {"First", "Last", "Next", "Prev"}
        => ret.out.tag \in {"Some", "None"}

\* a ReverseKey database scanned to its end: keys 1, 2, 256 come in that order
C9_Witness ==
    /\ ScanEnded("fwd")
    /\ "ReverseKey" \in dbflags
    /\ ret.out.tag = "None"
    /\ Len(scan.items) >= 3
    /\ scan.items[1][1] = to_bytes_key(1)
    /\ scan.items[Len(scan.items)][1] = to_bytes_key(256)

C5_Isolation ==
    [][LET t == ret'.txn
       IN  /\ ret'.op = "get" /\ ~txns[t].rw
                => ret'.out = TableGet(txns[t].snap, ret'.key)
           /\ ret'.op = "cursor_get" /\ ~txns[t].rw
                => ret'.out = Cursor_get(txns[t].snap, dbflags, cur[t].pos, ret'.flag).out
           /\ ret'.op = "cursor_get_with_key" /\ ~txns[t].rw
                => ret'.out = Cursor_get_with_key(txns[t].snap, dbflags, cur[t].pos,
                                                  to_bytes_key(ret'.key), ret'.flag).out
           /\ \A u \in ActiveRo :
                txns'[u].st = "active" => txns'[u].snap = txns[u].snap]_vars

\* a reader that began on a non-empty database got a result that the database
\* committed since would not give
C5_Witness ==
    /\ ret.op = "get"
    /\ ret.txn \in ActiveRo
    /\ txns[ret.txn].snap # {}
    /\ ret.out # TableGet(store, ret.key)

\* C8: every live table handle and byte view belongs to an active transaction
\* and is bound to that transaction's lifetime, every open cursor belongs to an
\* active transaction, and no read through a handle, a cursor or a view
\* happens on a transaction that has ended
C8_NoUseAfterEnd ==
    /\ \A w \in views : w.live => IsActive(w.src) /\ w.bound = w.src
    /\ \A t \in TxnIds : cur[t].st = "open" => IsActive(t)
    /\ ret.op \in {"use", "get", "cursor_get", "build"} => IsActive(ret.txn)

\* a transaction ended after views from get and from its cursor were let go
C8_Witness ==
    /\ ret.op \in {"commit", "abort"}
    /\ txns[ret.txn] = Done
    /\ \E w \in views : w.src = ret.txn /\ w.via = "get" /\ ~w.live
    /\ \E w \in views : w.src = ret.txn /\ w.via = "cursor_get" /\ ~w.live

\* the bytes a lookup of key k finds in a database: those of the first item
FoundBytes(db, k) == FirstData({p \in db : p[1] = to_bytes_key(k)})[2]
\* bytes that are a well-formed u8
WellFormed(bytes) == Len(bytes) = 1

\* C11: get returns None exactly when the key is absent from the view of its
\* transaction; when the key is present and its bytes are not a well-formed
\* value, get fails with a validation error; when they are, get returns the
\* view of exactly those bytes
C11_AbsentOrCorrupt ==
    ret.op = "get"
        => LET db == txns[ret.txn].view
               present == \E p \in db : p[1] = to_bytes_key(ret.key)
           IN  /\ ret.out.tag = "None" <=> ~present
               /\ present /\ ~WellFormed(FoundBytes(db, ret.key))
                    => ret.out.tag = "Err" /\ ret.out.err = "Validation"
               /\ present /\ WellFormed(FoundBytes(db, ret.key))
                    => ret.out.tag = "Some" /\ <<ret.out.val>> = FoundBytes(db, ret.key)

\* a get of a key whose stored bytes are not a u8 failed with a validation error
C11_Witness ==
    /\ ret.op = "get"
    /\ ret.out.tag = "Err" /\ ret.out.err = "Validation"
    /\ <<to_bytes_key(ret.key), <<>>>> \in txns[ret.txn].view

CursorCalls == {"cursor_get", "cursor_get_with_key", "cursor_get_with_u64_key"}
\* the status the engine gives the positioning call that returns ret'
EngineStatus ==
    mdb_cursor_get(txns[ret'.txn].view, dbflags, cur[ret'.txn].pos,
                   CursorOpTable(ret'.flag), to_bytes_key(ret'.key)).rc

Mutations == {"put", "put_no_overwrite", "delete", "clear"}

\* C13: put, put_no_overwrite, delete and clear happen only through a
\* read-write transaction; no call made through a read-only transaction, its
\* commit and abort included, changes the committed database or the view of
\* any transaction; get leaves everything stored as it is on both variants
C13_ReadOnly ==
    [][LET t == ret'.txn
       IN  /\ ret'.op \in Mutations => IsActive(t) /\ txns[t].rw
           /\ IsActive(t) /\ ~txns[t].rw
                => /\ store' = store
                   /\ \A u \in TxnIds : IsActive(u)' => txns'[u].view = txns[u].view
           /\ ret'.op = "get" => store' = store /\ txns' = txns]_vars

\* a read-only transaction read a stored value with its cursor
C13_Witness ==
    /\ ret.op = "cursor_get"
    /\ ret.txn \in ActiveRo
    /\ ret.out.tag = "Some"
    /\ store # {}

\* the step is put_no_overwrite(k, v2) on a DupSort database whose key k holds
\* values, none of them v2
NoOverwriteOnDup ==
    /\ ret'.op = "put_no_overwrite"
    /\ "DupSort" \in dbflags
    /\ StoredValues(txns[ret'.txn].view, ret'.key) # {}
    /\ ret'.val \notin StoredValues(txns[ret'.txn].view, ret'.key)

\* C14 as stated: on a DupSort database put_no_overwrite(k, v2) succeeds when
\* k holds only values other than v2, and k then holds v2 beside them
C14_NoOverwriteDup_AsStated ==
    [][NoOverwriteOnDup
        => /\ ret'.out.tag = "Ok"
           /\ StoredValues(txns'[ret'.txn].view, ret'.key)
                = StoredValues(txns[ret'.txn].view, ret'.key) \cup {ret'.val}]_vars

\* C14 amended: on a DupSort database too put_no_overwrite(k, v2) fails with
\* KeyExists when k holds a value, whatever v2 is, and stores nothing
C14_NoOverwriteDup ==
    [][NoOverwriteOnDup
        => /\ ret'.out.tag = "Err" /\ ret'.out.err = "KeyExists"
           /\ txns'[ret'.txn].view = txns[ret'.txn].view]_vars

\* put_no_overwrite(k, v2) was refused on a DupSort database whose k holds v1
C14_Witness ==
    /\ ret.op = "put_no_overwrite"
    /\ "DupSort" \in dbflags
    /\ ret.out.tag = "Err" /\ ret.out.err = "KeyExists"
    /\ StoredValues(txns[ret.txn].view, ret.key) # {}
    /\ ret.val \notin StoredValues(txns[ret.txn].view, ret.key)

\* C15: on a DupSort database a delete(k) that returns true leaves no item of
\* k, however many values k held, and leaves the items of every other key
C15_DeleteDup ==
    [][ret'.op = "delete" /\ "DupSort" \in dbflags /\ ret'.out.tag = "True"
        => LET before == txns[ret'.txn].view
               after == txns'[ret'.txn].view
               kb == to_bytes_key(ret'.key)
           IN  /\ {p \in after : p[1] = kb} = {}
               /\ {p \in after : p[1] # kb} = {p \in before : p[1] # kb}]_vars

\* a key that holds two committed values has none left in the transaction that
\* deleted it, and the other key's item is still there
C15_Witness ==
    /\ ret.op = "delete" /\ ret.out.tag = "True"
    /\ "DupSort" \in dbflags
    /\ Cardinality(ItemsOf(store, to_bytes_key(ret.key))) = 2
    /\ ItemsOf(txns[ret.txn].view, to_bytes_key(ret.key)) = {}
    /\ txns[ret.txn].view # {}

\* C16: the engine's cursor is live exactly while its Cursor is held, and only
\* in an active transaction; it is freed by one close, which happens in every
\* behaviour; no close is made on anything but a live cursor; an open that
\* fails leaves no cursor and no transaction ends with its cursor open
C16_CursorRelease ==
    /\ [](\A t \in TxnIds :
            /\ cur[t].st = "open" <=> cur[t].eng = "live"
            /\ cur[t].st = "closed" <=> cur[t].eng = "freed"
            /\ cur[t].eng = "live" => IsActive(t))
    /\ [][/\ ret'.op = "cursor_close"
              => cur[ret'.txn].eng = "live" /\ cur'[ret'.txn].eng = "freed"
          /\ \A t \in TxnIds :
                cur[t].eng = "live" /\ cur'[t].eng # "live"
                    => ret'.op = "cursor_close" /\ ret'.txn = t
          /\ ret'.op = "cursor_open" /\ ret'.out.tag = "Err" => cur' = cur
          /\ ret'.op \in {"commit", "abort"} => cur[ret'.txn].eng # "live"]_vars
    /\ \A t \in CursorTxns : (cur[t].eng = "live") ~> (cur[t].eng = "freed")

\* a cursor was freed and its transaction then ended, while the other
\* transaction's open had failed and left nothing
C16_Witness ==
    /\ \E t \in TxnIds : cur[t].eng = "freed" /\ txns[t] = Done
    /\ ret.op = "cursor_open" /\ ret.out.tag = "Err"
    /\ cur[ret.txn] = NoCursor

\* the least item of a set in the database's order
IsLeastOf(item, S) == item \in S /\ \A q \in S : q = item \/ DbItemLess(item, q)

\* C17: SetRange with key k returns, and leaves the cursor at, the first item
\* of the smallest key that is not below k in the database's key order, or is
\* absent when there is none; Set and SetKey return the first item of k when k
\* is stored and are absent otherwise; GetCurrent returns the item the cursor
\* is at and leaves the cursor there
C17_KeyDirected ==
    [][LET t == ret'.txn
           db == txns[t].view
           kb == to_bytes_key(ret'.key)
           geq == {p \in db : ~DbKeyLess(p[1], kb)}
           eq == {p \in db : p[1] = kb}
       IN  /\ ret'.op = "cursor_get_with_key" /\ ret'.flag = "SetRange"
                => IF geq = {} THEN ret'.out.tag = "None"
                   ELSE /\ ret'.out.tag = "Some"
                        /\ IsLeastOf(ret'.out.item, geq)
                        /\ cur'[t].pos = ret'.out.item
           /\ ret'.op = "cursor_get_with_key" /\ ret'.flag \in {"Set", "SetKey"}
                => IF eq = {} THEN ret'.out.tag = "None"
                   ELSE /\ ret'.out.tag = "Some"
                        /\ IsLeastOf(ret'.out.item, eq)
                        /\ cur'[t].pos = ret'.out.item
           /\ ret'.op = "cursor_get" /\ ret'.flag = "GetCurrent" /\ cur[t].pos \in db
                => /\ ret'.out.tag = "Some"
                   /\ ret'.out.item = cur[t].pos
                   /\ cur' = cur]_vars

\* on a ReverseKey database that stores no key 3, SetRange with 3 went to key
\* 256, the next key in that database's order
C17_Witness ==
    /\ ret.op = "cursor_get_with_key" /\ ret.flag = "SetRange"
    /\ "ReverseKey" \in dbflags
    /\ ret.key = 3
    /\ ret.out.tag = "Some"
    /\ ret.out.item[1] = to_bytes_key(256)
    /\ Cardinality(txns[ret.txn].view) >= 3

\* C18 as stated: for as long as its transaction is active, a slice returned by
\* get or by a cursor denotes the bytes it denoted when it was returned,
\* whatever the transaction has put, deleted or cleared since
C18_ViewStable ==
    \A w \in views : w.live /\ IsActive(w.src) => w.now = w.was

\* C19 as stated: get_with_u64_key never fails its assertion on the key's size,
\* and when it returns an entry the engine's key is eight bytes long and the
\* u64 returned is the native-order decoding of that key
C19_U64Key ==
    ret.op = "cursor_get_with_u64_key"
        => /\ ret.out.err # "debug_assert"
           /\ ret.out.tag = "Some"
                => /\ Len(ret.out.item[1]) = 8
                   /\ ret.out.val = from_ne_bytes(ret.out.item[1])

\* the memory the key slice of the get_with_key call just made points at
KeyMemory ==
    Cursor_get_with_key(txns[ret'.txn].view, dbflags, cur[ret'.txn].pos,
                        to_bytes_key(ret'.key), ret'.flag).keymem

\* C20 as stated: the key slice of an entry returned by get_with_key is memory
\* of the transaction under every flag but Set, and the caller's key_in buffer
\* under Set and under no other flag
C20_KeyProvenance ==
    [][ret'.op = "cursor_get_with_key" /\ ret'.out.tag = "Some"
        => (KeyMemory = "key_in" <=> ret'.flag = "Set")]_vars

====
